---- MODULE Spec2Model ----
(***************************************************************************)
(* Session lifecycle and entity cache of the Seatsurfing plugin            *)
(* (src/clawdbot/index.ts).                                                *)
(*                                                                         *)
(* The plugin keeps one session (accessToken, refreshToken,                *)
(* tokenExpiresAt, baseUrl) in module-level variables that every tool      *)
(* invocation shares.  A tool invocation is an async function: it runs     *)
(* without interruption up to an await and is resumed later, so each       *)
(* action below is one such uninterrupted segment of one invocation.       *)
(*                                                                         *)
(* Time is counted in units of 30 000 ms, the largest unit that divides    *)
(* the three durations of the source (30 s, 60 s, 14 min).                 *)
(*                                                                         *)
(* Spec starts from the freshly loaded module.  SpecActive has the same    *)
(* steps and starts from a state Spec reaches (one login done, the token   *)
(* 90 s before its expiry), so that MaxInvocations concurrent invocations  *)
(* fit into the renewal margin.  SpecCache starts there too and runs the    *)
(* cache refresh only.  SpecCred runs the login tool against a process      *)
(* environment and a config file that hold some of the credentials, and    *)
(* SpecRegister starts before register() and follows its auto-login.       *)
(* SpecAvailability runs check_availability over all flag lists, and       *)
(* SpecRotating runs the tools against a remote that accepts each refresh   *)
(* token once.                                                             *)
(***************************************************************************)
EXTENDS Integers, Sequences, FiniteSets, TLC

\* ---------------------------------------------------------------------
\* Program constants, in units of 30 000 ms
\* ---------------------------------------------------------------------
TOKEN_TTL == 28
REFRESH_MARGIN == 2
REQUEST_TIMEOUT == 1

\* ---------------------------------------------------------------------
\* Bounds of the model
\* ---------------------------------------------------------------------
NumProcs == 2
MaxInvocations == 2
MaxTime == 28
MaxLocs == 2
MaxSpaces == 5

Procs == 1..NumProcs

\* the slot of the tryAutoLogin() call of register, which runs in the background
Background == 0
Slots == {Background} \cup Procs

\* null of the token variables; the tokens of the k-th issued pair are k
NULL == 0

VARIABLES
  now,              \* Date.now()
  accessToken,      \* session state, index.ts:12-15
  refreshToken,
  tokenExpiresAt,
  baseUrl,
  cacheFile,        \* ~/.seatsurfing/spaces.json: <<>> (missing) or <<snapshot>>
  inv,              \* per slot: the tool invocation running in it (see Idle)
  result,           \* the result or error most recently handed back to the host
  issued,           \* remote: number of token pairs issued so far
  invocations,      \* history: number of invocations started
  tornDown,         \* history: a refresh was rejected and no login succeeded since
  lastSuccessAt,    \* history: time the last login/refresh success was processed
  lastPair,         \* history: token pair of that response
  lastRefresh,      \* history: <<>> or <<what the invocation that wrote cacheFile
                    \* had received and returned>> (see Written)
  env,              \* process.env: the four SEATSURFING_* variables
  config,           \* ~/.seatsurfing/config.json as loadConfig() returns it
  tools,            \* the tools registered with the host
  lastCall          \* history: <<>> or <<the arguments of a login tool call and
                    \* the credentials it resolved>> (see InvokeLoginLogged)

session == <<accessToken, refreshToken, tokenExpiresAt>>
history == <<tornDown, lastSuccessAt, lastPair>>
cache == <<cacheFile, lastRefresh>>
setup == <<env, config, tools, lastCall>>
vars == <<now, accessToken, refreshToken, tokenExpiresAt, baseUrl, cacheFile,
          inv, result, issued, invocations, tornDown, lastSuccessAt, lastPair,
          lastRefresh, env, config, tools, lastCall>>

\* ---------------------------------------------------------------------
\* Tools, endpoints, responses
\* ---------------------------------------------------------------------
SimpleTools == {"list_locations", "list_spaces", "list_my_bookings",
                "cancel_booking"}
GatedTools ==
  SimpleTools \cup {"check_availability", "create_booking", "refresh_spaces"}

AuthEndpoints == {"POST /auth/login", "POST /auth/refresh"}

\* the request each tool issues after ensureAuthenticated
ToolEndpoint(t) ==
  CASE t = "login" -> "GET /user/me"
    [] t = "list_locations" -> "GET /location/"
    [] t = "list_spaces" -> "GET /location/{id}/space/"
    [] t = "check_availability" -> "GET /location/{id}/space/availability"
    [] t = "create_booking" -> "POST /booking/"
    [] t = "list_my_bookings" -> "GET /booking/"
    [] t = "cancel_booking" -> "DELETE /booking/{id}"
    [] t = "refresh_spaces" -> "GET /location/"

AllTools == GatedTools \cup {"login"}

\* The four credential fields.  A URL is a sequence of characters, the other
\* fields are opaque strings; a field that is unset, undefined or empty is
\* falsy.
CredentialKeys == {"url", "email", "password", "orgId"}
Absent(key) == IF key = "url" THEN <<>> ELSE ""
NoCredentials == [k \in CredentialKeys |-> Absent(k)]

\* the stores that hold the value v for the first n fields and nothing for
\* the others
Stores(v) ==
  {[url |-> IF n >= 1 THEN <<v>> ELSE <<>>, email |-> IF n >= 2 THEN v ELSE "",
    password |-> IF n >= 3 THEN v ELSE "", orgId |-> IF n >= 4 THEN v ELSE ""] :
     n \in 0..4}
\* process.env, and config.json (a JSON object; {} when the file is missing or
\* does not parse)
Environments == Stores("e")
ConfigFiles == Stores("c")

Statuses == {200, 201, 401}
\* the statuses POST /booking/ is answered with
BookingStatuses == Statuses \cup {204}
Bodies == {"b1", "b2"}

\* Response.ok
IsOk(status) == status >= 200 /\ status <= 299

\* entries returned by the remote carry more fields than the cache keeps
RemoteEntry(i) == [id |-> i, name |-> i, extra |-> "x"]
Prefix(n) == [i \in 1..n |-> RemoteEntry(i)]
LocationLists == {Prefix(n) : n \in 0..MaxLocs}

\* the spaces the remote holds at location l: one at odd locations, none at
\* even ones
RemoteSpaces(l) == Prefix(l % 2)

\* the entries of an availability response: the space at position i with its
\* flag
SpaceEntry(i, flag) == [id |-> i, name |-> i, available |-> flag]
AvailabilityLists ==
  UNION {{[i \in 1..n |-> SpaceEntry(i, f[i])] : f \in [1..n -> BOOLEAN]} :
           n \in 0..MaxSpaces}
\* the availability the remote reports when the tool is one among the others
RemoteAvailability == <<SpaceEntry(1, TRUE), SpaceEntry(2, FALSE)>>

EmptyMap == [l \in {} |-> <<>>]
NoReq ==
  [base |-> <<>>, ep |-> "none", arg |-> 0, authenticated |-> FALSE,
   bearer |-> NULL, elapsed |-> 0]
NoResult == [kind |-> "none", status |-> 0, body |-> "", data |-> <<>>]

\* A slot that runs no invocation.  pc is the await the invocation is suspended
\* at; tool, locations, idx, spacesByLocation are the locals of execute; net is
\* the request fetch is waiting for; reqs (the requests the invocation has
\* dispatched), resps (the responses the cache refresh has received) and
\* ensured (its ensureAuthenticated has returned normally) are history.
Idle ==
  [pc |-> "idle", tool |-> "none", net |-> NoReq, locations |-> <<>>, idx |-> 0,
   spacesByLocation |-> EmptyMap, reqs |-> <<>>, resps |-> <<>>,
   ensured |-> FALSE]

\* the background slot while tryAutoLogin() does not wait for a response:
\* "unstarted" (register has not run), "skipped" (a credential is missing),
\* "failed" (login threw, the catch swallowed it) or "done"
AutoLogin(pc) == [Idle EXCEPT !.tool = "tryAutoLogin", !.pc = pc]

WaitPcs == {"login_wait", "refresh_wait", "req_wait", "space_wait"}
PendingPcs == {"ensure", "authed"}

InFlight(p) == inv[p].pc \in WaitPcs

\* ---------------------------------------------------------------------
\* Initial state: the module has been loaded and registered in a process
\* that has no stored credentials (tryAutoLogin has sent nothing); nobody
\* has logged in
\* ---------------------------------------------------------------------
Init ==
  /\ now = 0
  /\ accessToken = NULL
  /\ refreshToken = NULL
  /\ tokenExpiresAt = 0
  /\ baseUrl = <<>>
  /\ cacheFile = <<>>
  /\ lastRefresh = <<>>
  /\ inv = [p \in Slots |-> IF p = Background THEN AutoLogin("skipped") ELSE Idle]
  /\ result = NoResult
  /\ env = NoCredentials
  /\ config = NoCredentials
  /\ tools = AllTools
  /\ lastCall = <<>>
  /\ issued = 0
  /\ invocations = 0
  /\ tornDown = FALSE
  /\ lastSuccessAt = 0
  /\ lastPair = NULL

\* ---------------------------------------------------------------------
\* Helpers of the source
\* ---------------------------------------------------------------------

\* url.replace(/\/$/, ""): one trailing slash is removed
StripTrailingSlash(url) ==
  IF Len(url) > 0 /\ url[Len(url)] = "/" THEN SubSeq(url, 1, Len(url) - 1) ELSE url

\* variant of ApiRequest that sets the header whenever a token is held
ApiRequestAlwaysBearer(ep, arg, authenticated) ==
  [base |-> baseUrl, ep |-> ep, arg |-> arg, authenticated |-> authenticated,
   bearer |-> accessToken, elapsed |-> 0]

\* apiRequest: the request as it is handed to fetch.  base is the baseUrl the
\* URL is built from; bearer is the token of the Authorization header, NULL
\* when the header is not set.
ApiRequest(ep, arg, authenticated) ==
  [base |-> baseUrl, ep |-> ep, arg |-> arg, authenticated |-> authenticated,
   bearer |-> IF authenticated /\ accessToken # NULL THEN accessToken ELSE NULL,
   elapsed |-> 0]

\* variant of GetCredential that prefers the config file to the environment
GetCredentialFileFirst(key) ==
  IF config[key] # Absent(key) THEN config[key]
  ELSE IF env[key] # Absent(key) THEN env[key]
  ELSE Absent(key)

\* getCredential: process.env[envVar] || config[key] || ""
GetCredential(key) ==
  IF env[key] # Absent(key) THEN env[key]
  ELSE IF config[key] # Absent(key) THEN config[key]
  ELSE Absent(key)

\* login tool: String(params.x || getCredential(x, ...)) for the four fields
LoginCredentials(params) ==
  [k \in CredentialKeys |->
     IF params[k] # Absent(k) THEN params[k] ELSE GetCredential(k)]

\* variant of NeedsRefresh that already renews at the margin itself (>= for >)
NeedsRefreshAtMargin ==
  now >= tokenExpiresAt - REFRESH_MARGIN /\ refreshToken # NULL

\* the condition of the if in ensureAuthenticated
NeedsRefresh == now > tokenExpiresAt - REFRESH_MARGIN /\ refreshToken # NULL

\* the object literal of locations.map / spaces.map
Project(e) == [id |-> e.id, name |-> e.name]
ProjectAll(list) == [i \in 1..Len(list) |-> Project(list[i])]

\* Object.values(spacesByLocation).reduce((sum, arr) => sum + arr.length, 0)
RECURSIVE TotalSpaces(_)
TotalSpaces(m) ==
  IF DOMAIN m = {} THEN 0
  ELSE LET l == CHOOSE x \in DOMAIN m : TRUE
       IN Len(m[l]) + TotalSpaces([x \in DOMAIN m \ {l} |-> m[x]])

\* variant of PutSpaces that files the spaces under the following id
PutSpacesUnderNextId(m, l, spaces) ==
  [x \in DOMAIN m \cup {l + 1} |-> IF x = l + 1 THEN ProjectAll(spaces) ELSE m[x]]

\* spacesByLocation[loc.id] = spaces.map(...)
PutSpaces(m, l, spaces) ==
  [x \in DOMAIN m \cup {l} |-> IF x = l THEN ProjectAll(spaces) ELSE m[x]]

\* cacheData of the refresh tool
CacheData(locs, m) ==
  [updated_at |-> now, locations |-> ProjectAll(locs), spaces |-> m]

Result(kind, status, body, data) ==
  [kind |-> kind, status |-> status, body |-> body, data |-> data]

\* the invocation of slot p calls fetch with request r and is suspended at w
Dispatch(p, r, w) ==
  inv' = [inv EXCEPT ![p].net = r, ![p].reqs = Append(@, <<r.ep, r.arg>>),
                     ![p].pc = w]

\* variant of Throw in which tryAutoLogin has no catch
ThrowUncaught(p, kind, status, body) ==
  /\ inv' = [inv EXCEPT ![p] = IF p = Background THEN AutoLogin("failed")
                                ELSE Idle]
  /\ result' = Result(kind, status, body, <<>>)

\* the invocation of slot p ends with a thrown error
\* (to the host, or in the background slot into the catch of tryAutoLogin)
Throw(p, kind, status, body) ==
  IF p = Background
    THEN inv' = [inv EXCEPT ![p] = AutoLogin("failed")] /\ UNCHANGED result
  ELSE /\ inv' = [inv EXCEPT ![p] = Idle]
       /\ result' = Result(kind, status, body, <<>>)

\* the invocation of slot p ends with a returned result
Return(p, kind, data) ==
  /\ inv' = [inv EXCEPT ![p] = Idle]
  /\ result' = Result(kind, 0, "", data)

\* the invocation of slot p is suspended at w and may be resumed; the host
\* takes a result that was handed back before anything else runs
At(p, w) == result = NoResult /\ inv[p].pc = w

\* a new invocation may take slot p: the first free one
Free(p) ==
  /\ At(p, "idle")
  /\ \A q \in Procs : q < p => inv[q].pc # "idle"
  /\ invocations < MaxInvocations

\* ---------------------------------------------------------------------
\* Tool invocations
\* ---------------------------------------------------------------------

\* variant of InvokeTool that sends the tool's request without the gating call
InvokeToolUngated(p, t) ==
  /\ Free(p)
  /\ t \in tools
  /\ invocations' = invocations + 1
  /\ LET r == ApiRequest(ToolEndpoint(t), 0, TRUE)
     IN inv' = [inv EXCEPT ![p].tool = t, ![p].net = r,
                           ![p].reqs = Append(@, <<r.ep, r.arg>>),
                           ![p].pc = "req_wait"]
  /\ UNCHANGED <<setup, now, session, baseUrl, cache, result, issued,
                 history>>

\* execute of every tool but login starts with await ensureAuthenticated()
InvokeTool(p, t) ==
  /\ Free(p)
  /\ t \in tools
  /\ invocations' = invocations + 1
  /\ inv' = [inv EXCEPT ![p].pc = "ensure", ![p].tool = t]
  /\ UNCHANGED <<setup, now, session, baseUrl, cache, result, issued,
                 history>>

UrlInputs == {<<>>, <<"a", "/">>}
FieldInputs == {"", "v"}
LoginInputs == [url : UrlInputs, email : FieldInputs, password : FieldInputs,
                orgId : FieldInputs]

\* login(): baseUrl is set, then POST /auth/login is sent without a bearer
Login(p, t, url) ==
  /\ baseUrl' = StripTrailingSlash(url)
  /\ inv' = [inv EXCEPT ![p].tool = t,
                        ![p].net = [ApiRequest("POST /auth/login", 0, FALSE)
                                      EXCEPT !.base = baseUrl'],
                        ![p].reqs = Append(@, <<"POST /auth/login", 0>>),
                        ![p].pc = "login_wait"]

\* variant of LoginToolCall that validates email and password before the URL
LoginToolCallFieldsFirst(p, c) ==
  /\ Free(p)
  /\ "login" \in tools
  /\ invocations' = invocations + 1
  /\ IF c.email = "" \/ c.password = ""
       THEN Throw(p, "CredentialsRequired", 0, "") /\ UNCHANGED baseUrl
     ELSE IF c.url = <<>>
       THEN Throw(p, "UrlRequired", 0, "") /\ UNCHANGED baseUrl
     ELSE IF c.orgId = ""
       THEN Throw(p, "OrgRequired", 0, "") /\ UNCHANGED baseUrl
     ELSE Login(p, "login", c.url) /\ UNCHANGED result
  /\ UNCHANGED <<env, config, tools, now, session, cache, issued, history>>

\* execute of the login tool from its validation to its first await, with the
\* resolved credentials c
LoginToolCall(p, c) ==
  /\ Free(p)
  /\ "login" \in tools
  /\ invocations' = invocations + 1
  /\ IF c.url = <<>>
       THEN Throw(p, "UrlRequired", 0, "") /\ UNCHANGED baseUrl
     ELSE IF c.email = "" \/ c.password = ""
       THEN Throw(p, "CredentialsRequired", 0, "") /\ UNCHANGED baseUrl
     ELSE IF c.orgId = ""
       THEN Throw(p, "OrgRequired", 0, "") /\ UNCHANGED baseUrl
     ELSE Login(p, "login", c.url) /\ UNCHANGED result
  /\ UNCHANGED <<env, config, tools, now, session, cache, issued, history>>

\* execute of the login tool up to its first await
InvokeLogin(p, params) ==
  /\ LoginToolCall(p, LoginCredentials(params))
  /\ UNCHANGED lastCall

\* the same, and the call is put on record
InvokeLoginLogged(p, params) ==
  /\ LoginToolCall(p, LoginCredentials(params))
  /\ lastCall' = <<[params |-> params, used |-> LoginCredentials(params)]>>

\* the user edits config.json
EditConfig(c) ==
  /\ result = NoResult
  /\ c # config
  /\ config' = c
  /\ UNCHANGED <<env, tools, lastCall, now, session, baseUrl, cache, inv, result,
                 issued, invocations, history>>

\* ---------------------------------------------------------------------
\* Session manager
\* ---------------------------------------------------------------------

\* login(): the response is 2xx; the tokens of the body are stored
LoginOk(p) ==
  /\ At(p, "login_wait")
  /\ issued' = issued + 1
  /\ accessToken' = issued + 1
  /\ refreshToken' = issued + 1
  /\ tokenExpiresAt' = now + TOKEN_TTL
  /\ inv' = IF p = Background THEN [inv EXCEPT ![p] = AutoLogin("done")]
            ELSE [inv EXCEPT ![p].pc = "ensure", ![p].net = NoReq]
  /\ tornDown' = FALSE
  /\ lastSuccessAt' = now
  /\ lastPair' = issued + 1
  /\ UNCHANGED <<setup, now, baseUrl, cache, result, invocations>>

\* login(): the response is not 2xx; "Login failed: <status> <body>" is thrown
LoginRejected(p, status, body) ==
  /\ At(p, "login_wait")
  /\ ~IsOk(status)
  /\ Throw(p, "LoginFailed", status, body)
  /\ UNCHANGED <<setup, now, session, baseUrl, cache, issued, invocations,
                 history>>

\* ensureAuthenticated() up to its await, or to its return when it has none
EnsureAuthenticated(p) ==
  /\ At(p, "ensure")
  /\ IF accessToken = NULL
       THEN Throw(p, "NotAuthenticated", 0, "")
     ELSE IF NeedsRefresh
       THEN /\ Dispatch(p, ApiRequest("POST /auth/refresh", refreshToken, FALSE),
                        "refresh_wait")
            /\ UNCHANGED result
     ELSE /\ inv' = [inv EXCEPT ![p].pc = "authed", ![p].ensured = TRUE]
          /\ UNCHANGED result
  /\ UNCHANGED <<setup, now, session, baseUrl, cache, issued, invocations,
                 history>>

\* variant of RefreshOk that stores the new access token only
RefreshOkAccessOnly(p) ==
  /\ At(p, "refresh_wait")
  /\ issued' = issued + 1
  /\ accessToken' = issued + 1
  /\ tokenExpiresAt' = now + TOKEN_TTL
  /\ inv' = [inv EXCEPT ![p].pc = "authed", ![p].net = NoReq, ![p].ensured = TRUE]
  /\ lastSuccessAt' = now
  /\ lastPair' = issued + 1
  /\ UNCHANGED <<setup, now, refreshToken, baseUrl, cache, result,
                 invocations, tornDown>>

\* ensureAuthenticated(): the refresh response is 2xx; both tokens are replaced
RefreshOk(p) ==
  /\ At(p, "refresh_wait")
  /\ issued' = issued + 1
  /\ accessToken' = issued + 1
  /\ refreshToken' = issued + 1
  /\ tokenExpiresAt' = now + TOKEN_TTL
  /\ inv' = [inv EXCEPT ![p].pc = "authed", ![p].net = NoReq, ![p].ensured = TRUE]
  /\ lastSuccessAt' = now
  /\ lastPair' = issued + 1
  /\ UNCHANGED <<setup, now, baseUrl, cache, result, invocations, tornDown>>

\* variant of RefreshRejected that sends the refresh again instead of giving up
RefreshRejectedRetry(p, status) ==
  /\ At(p, "refresh_wait")
  /\ ~IsOk(status)
  /\ Dispatch(p, ApiRequest("POST /auth/refresh", refreshToken, FALSE), "refresh_wait")
  /\ UNCHANGED <<setup, now, session, baseUrl, cache, result, issued, invocations,
                 history>>

\* ensureAuthenticated(): the refresh response is not 2xx; both tokens are
\* cleared and "Token refresh failed - please login again" is thrown
RefreshRejected(p, status) ==
  /\ At(p, "refresh_wait")
  /\ ~IsOk(status)
  /\ accessToken' = NULL
  /\ refreshToken' = NULL
  /\ Throw(p, "SessionExpired", 0, "")
  /\ tornDown' = TRUE
  /\ UNCHANGED <<setup, now, tokenExpiresAt, baseUrl, cache, issued, invocations,
                 lastSuccessAt, lastPair>>

\* fetch rejects (the 30 s abort signal, or a transport failure): the error
\* propagates through apiRequest and its callers, none of which catches it
FetchThrows(p) ==
  /\ result = NoResult
  /\ InFlight(p)
  /\ Throw(p, IF inv[p].net.elapsed >= REQUEST_TIMEOUT THEN "TimeoutError"
              ELSE "NetworkError", 0, "")
  /\ UNCHANGED <<setup, now, session, baseUrl, cache, issued, invocations,
                 history>>

\* ---------------------------------------------------------------------
\* Tools after ensureAuthenticated
\* ---------------------------------------------------------------------

\* the tool's request, sent with authenticated = true
Continue(p) ==
  /\ At(p, "authed")
  /\ Dispatch(p, ApiRequest(ToolEndpoint(inv[p].tool), 0, TRUE), "req_wait")
  /\ UNCHANGED <<setup, now, session, baseUrl, cache, result, issued, invocations,
                 history>>

\* variant of Availability that lists every space as occupied
AvailabilityAllOccupied(spaces) ==
  LET available == SelectSeq(spaces, LAMBDA e : e.available)
  IN [available |-> [i \in 1..Len(available) |->
                       [name |-> available[i].name, id |-> available[i].id]],
      occupied |-> [i \in 1..Len(spaces) |-> [name |-> spaces[i].name]],
      counts |-> <<Len(available), Len(spaces)>>]

\* check_availability: the two filters and the lines built from them (name and
\* id of every available space, name of every occupied one, the two lengths)
Availability(spaces) ==
  LET available == SelectSeq(spaces, LAMBDA e : e.available)
      occupied == SelectSeq(spaces, LAMBDA e : ~e.available)
  IN [available |-> [i \in 1..Len(available) |->
                       [name |-> available[i].name, id |-> available[i].id]],
      occupied |-> [i \in 1..Len(occupied) |-> [name |-> occupied[i].name]],
      counts |-> <<Len(available), Len(occupied)>>]

\* check_availability: the response of GET /location/{id}/space/availability
\* (the data of the returned result: the status and the list it was returned
\* for, and what it reports)
AvailabilityResponse(p, status, spaces) ==
  /\ At(p, "req_wait")
  /\ inv[p].tool = "check_availability"
  /\ IF IsOk(status) THEN Return(p, "Ok", <<status, spaces, Availability(spaces)>>)
     ELSE Throw(p, "Failed", status, "")
  /\ UNCHANGED <<setup, now, session, baseUrl, cache, issued, invocations,
                 history>>

\* list_locations, list_spaces, list_my_bookings, cancel_booking: if (!res.ok) throw new Error(`Failed: ${res.status}`)
SimpleResponse(p, status) ==
  /\ At(p, "req_wait")
  /\ inv[p].tool \in SimpleTools
  /\ IF IsOk(status) THEN Return(p, "Ok", <<status>>)
     ELSE Throw(p, "Failed", status, "")
  /\ UNCHANGED <<setup, now, session, baseUrl, cache, issued, invocations,
                 history>>

\* variant of BookingResponse that accepts every 2xx status
BookingResponseAnyOk(p, status, body) ==
  /\ At(p, "req_wait")
  /\ inv[p].tool = "create_booking"
  /\ IF ~IsOk(status) THEN Throw(p, "BookingFailed", status, body)
     ELSE Return(p, "Booked", <<status>>)
  /\ UNCHANGED <<setup, now, session, baseUrl, cache, issued, invocations,
                 history>>

\* create_booking: if (res.status !== 201) throw `Booking failed: <status> <text>`
\* (the data of the returned result is the status it was returned for)
BookingResponse(p, status, body) ==
  /\ At(p, "req_wait")
  /\ inv[p].tool = "create_booking"
  /\ IF status # 201 THEN Throw(p, "BookingFailed", status, body)
     ELSE Return(p, "Booked", <<status>>)
  /\ UNCHANGED <<setup, now, session, baseUrl, cache, issued, invocations,
                 history>>

\* login tool: the response of GET /user/me is read without a status check
MeResponse(p, status) ==
  /\ At(p, "req_wait")
  /\ inv[p].tool = "login"
  /\ Return(p, "LoggedIn", <<status>>)
  /\ UNCHANGED <<setup, now, session, baseUrl, cache, issued, invocations,
                 history>>

\* refresh_spaces: the request of the for-loop for the location at position i
SpaceRequest(locs, i) ==
  ApiRequest("GET /location/{id}/space/", locs[i].id, TRUE)

\* variant of SaveAndReturn that appends the locations to the stored ones
SaveAndReturnAppended(p, locs, m) ==
  /\ LET old == IF cacheFile = <<>> THEN <<>> ELSE cacheFile[1].locations
     IN cacheFile' = <<[CacheData(locs, m) EXCEPT !.locations = old \o @]>>
  /\ Return(p, "Cache", <<Len(locs), TotalSpaces(m)>>)

\* variant of SaveAndReturn that merges the new spaces into the stored ones
SaveAndReturnMerged(p, locs, m) ==
  /\ LET old == IF cacheFile = <<>> THEN EmptyMap ELSE cacheFile[1].spaces
     IN cacheFile' = <<CacheData(locs, [l \in DOMAIN old \cup DOMAIN m |->
                                         IF l \in DOMAIN m THEN m[l] ELSE old[l]])>>
  /\ Return(p, "Cache", <<Len(locs), TotalSpaces(m)>>)

\* refresh_spaces after its loop: the snapshot is written and counted
SaveAndReturn(p, locs, m) ==
  /\ cacheFile' = <<CacheData(locs, m)>>
  /\ Return(p, "Cache", <<Len(locs), TotalSpaces(m)>>)

\* what the invocation of slot p has received once a response with Response.ok
\* = ok and the JSON array list (read only when ok) has come in
Seen(p, ok, list) ==
  Append(inv[p].resps, [ok |-> ok, list |-> IF ok THEN list ELSE <<>>])

\* the refresh of slot p has written the cache file; repeats is <<>>, or <<the
\* updated_at of the snapshot it replaced>> when the writer of that snapshot
\* had received the same responses
Written(p, ok, list) ==
  lastRefresh' =
    <<[resps |-> Seen(p, ok, list), counts |-> result'.data,
       repeats |-> IF lastRefresh # <<>> /\ lastRefresh[1].resps = Seen(p, ok, list)
                     THEN <<cacheFile[1].updated_at>> ELSE <<>>]>>

\* variant of LocationsResponse that empties the cache file when GET /location/
\* is answered with an error status
LocationsResponseEmptying(p, status, locs) ==
  /\ At(p, "req_wait")
  /\ inv[p].tool = "refresh_spaces"
  /\ IF ~IsOk(status)
       THEN /\ Throw(p, "Failed", status, "")
            /\ cacheFile' = <<CacheData(<<>>, EmptyMap)>>
            /\ UNCHANGED lastRefresh
     ELSE IF Len(locs) = 0
       THEN SaveAndReturn(p, locs, EmptyMap) /\ Written(p, TRUE, locs)
     ELSE /\ LET r == SpaceRequest(locs, 1)
             IN inv' = [inv EXCEPT ![p].locations = locs, ![p].idx = 1,
                                   ![p].resps = Seen(p, TRUE, locs),
                                   ![p].net = r,
                                   ![p].reqs = Append(@, <<r.ep, r.arg>>),
                                   ![p].pc = "space_wait"]
          /\ UNCHANGED <<cache, result>>
  /\ UNCHANGED <<setup, now, session, baseUrl, issued, invocations, history>>

\* refresh_spaces: the response of GET /location/
LocationsResponse(p, status, locs) ==
  /\ At(p, "req_wait")
  /\ inv[p].tool = "refresh_spaces"
  /\ IF ~IsOk(status)
       THEN Throw(p, "Failed", status, "") /\ UNCHANGED cache
     ELSE IF Len(locs) = 0
       THEN SaveAndReturn(p, locs, EmptyMap) /\ Written(p, TRUE, locs)
     ELSE /\ LET r == SpaceRequest(locs, 1)
             IN inv' = [inv EXCEPT ![p].locations = locs, ![p].idx = 1,
                                   ![p].resps = Seen(p, TRUE, locs),
                                   ![p].net = r,
                                   ![p].reqs = Append(@, <<r.ep, r.arg>>),
                                   ![p].pc = "space_wait"]
          /\ UNCHANGED <<cache, result>>
  /\ UNCHANGED <<setup, now, session, baseUrl, issued, invocations, history>>

\* refresh_spaces: the response of one GET /location/{id}/space/; a response
\* that is not ok leaves spacesByLocation as it is and the loop goes on
SpaceResponse(p, status) ==
  /\ At(p, "space_wait")
  /\ LET locs == inv[p].locations
         i == inv[p].idx
         m == IF IsOk(status)
                THEN PutSpaces(inv[p].spacesByLocation, locs[i].id,
                               RemoteSpaces(locs[i].id))
              ELSE inv[p].spacesByLocation
     IN IF i < Len(locs)
          THEN /\ LET r == SpaceRequest(locs, i + 1)
                  IN inv' = [inv EXCEPT ![p].spacesByLocation = m, ![p].idx = i + 1,
                                        ![p].resps =
                                          Seen(p, IsOk(status),
                                               RemoteSpaces(locs[i].id)),
                                        ![p].net = r,
                                        ![p].reqs = Append(@, <<r.ep, r.arg>>)]
               /\ UNCHANGED <<cache, result>>
        ELSE /\ SaveAndReturn(p, locs, m)
             /\ Written(p, IsOk(status), RemoteSpaces(locs[i].id))
  /\ UNCHANGED <<setup, now, session, baseUrl, issued, invocations, history>>

\* ---------------------------------------------------------------------
\* The clock
\* ---------------------------------------------------------------------

\* How far Date.now() moves in one step.  While a request waits, 30 s (its
\* timeout); while the session is idle and far from its renewal margin, to
\* the instant 30 s before the margin; otherwise 30 s.  An idle process
\* without a session never reads the clock.
TickSteps ==
  IF \E p \in Procs : InFlight(p) THEN {1}
  ELSE IF accessToken = NULL THEN {}
  ELSE IF now < tokenExpiresAt - REFRESH_MARGIN - 1
    THEN {tokenExpiresAt - REFRESH_MARGIN - 1 - now}
  ELSE {1}

\* Time passes.  A continuation that is ready runs before the clock moves,
\* and fetch settles (response or abort) no later than its timeout.
Tick ==
  /\ result = NoResult
  /\ \A p \in Slots : inv[p].pc \notin PendingPcs
  /\ \A p \in Slots : InFlight(p) => inv[p].net.elapsed < REQUEST_TIMEOUT
  /\ \E d \in TickSteps :
       /\ now + d <= MaxTime
       /\ now' = now + d
       /\ inv' = [p \in Slots |->
                    IF InFlight(p) THEN [inv[p] EXCEPT !.net.elapsed = @ + d]
                    ELSE inv[p]]
  /\ UNCHANGED <<setup, session, baseUrl, cache, result, issued,
                 invocations, history>>

\* the host has taken the result of the invocation that ended
Settle ==
  /\ result # NoResult
  /\ result' = NoResult
  /\ UNCHANGED <<setup, now, session, baseUrl, cache, inv, issued,
                 invocations, history>>

\* ---------------------------------------------------------------------
\* Specification
\* ---------------------------------------------------------------------
Next ==
  \/ \E p \in Procs, t \in GatedTools : InvokeTool(p, t)
  \/ \E p \in Procs, c \in LoginInputs : InvokeLogin(p, c)
  \/ \E p \in Procs : LoginOk(p)
  \/ \E p \in Procs, s \in Statuses, b \in Bodies : LoginRejected(p, s, b)
  \/ \E p \in Procs : EnsureAuthenticated(p)
  \/ \E p \in Procs : RefreshOk(p)
  \/ \E p \in Procs, s \in Statuses : RefreshRejected(p, s)
  \/ \E p \in Procs : FetchThrows(p)
  \/ \E p \in Procs : Continue(p)
  \/ \E p \in Procs, s \in Statuses : SimpleResponse(p, s)
  \/ \E p \in Procs, s \in Statuses : AvailabilityResponse(p, s, RemoteAvailability)
  \/ \E p \in Procs, s \in BookingStatuses, b \in Bodies : BookingResponse(p, s, b)
  \/ \E p \in Procs, s \in Statuses : MeResponse(p, s)
  \/ \E p \in Procs, s \in Statuses, l \in LocationLists : LocationsResponse(p, s, l)
  \/ \E p \in Procs, s \in Statuses : SpaceResponse(p, s)
  \/ Tick
  \/ Settle

Spec == Init /\ [][Next]_vars

\* The state Spec reaches when one login tool call has completed at time 0
\* and the process has idled until 90 s before the token expires; the count
\* of invocations starts afresh.
InitActive ==
  /\ now = TOKEN_TTL - REFRESH_MARGIN - 1
  /\ accessToken = 1
  /\ refreshToken = 1
  /\ tokenExpiresAt = TOKEN_TTL
  /\ baseUrl = <<"a">>
  /\ cacheFile = <<>>
  /\ lastRefresh = <<>>
  /\ inv = [p \in Slots |-> IF p = Background THEN AutoLogin("skipped") ELSE Idle]
  /\ result = NoResult
  /\ env = NoCredentials
  /\ config = NoCredentials
  /\ tools = AllTools
  /\ lastCall = <<>>
  /\ issued = 1
  /\ invocations = 0
  /\ tornDown = FALSE
  /\ lastSuccessAt = 0
  /\ lastPair = 1

SpecActive == InitActive /\ [][Next]_vars

\* The steps of the process while the host invokes the cache refresh only and
\* the server answers a token renewal, if it answers, with a rejection (the
\* accepted renewal is part of Next).  From InitActive the token enters its
\* renewal margin after two ticks.
NextCache ==
  \/ \E p \in Procs : InvokeTool(p, "refresh_spaces")
  \/ \E p \in Procs : EnsureAuthenticated(p)
  \/ \E p \in Procs : FetchThrows(p)
  \/ \E p \in Procs : Continue(p)
  \/ \E p \in Procs, s \in Statuses, l \in LocationLists : LocationsResponse(p, s, l)
  \/ \E p \in Procs, s \in Statuses : SpaceResponse(p, s)
  \/ \E p \in Procs, s \in Statuses : RefreshRejected(p, s)
  \/ Tick
  \/ Settle

SpecCache == InitActive /\ [][NextCache]_vars

\* The process has been registered with some environment and some config
\* file: tryAutoLogin() was skipped, or it tried and failed, so that no token
\* is held; or the login tool has logged in since (as in InitActive).
InitCred ==
  /\ now = 0
  /\ env \in Environments
  /\ config \in ConfigFiles
  /\ LET c == [k \in CredentialKeys |-> GetCredential(k)]
         tried == \A k \in CredentialKeys : c[k] # Absent(k)
     IN /\ inv = [p \in Slots |->
                   IF p # Background THEN Idle
                   ELSE AutoLogin(IF tried THEN "failed" ELSE "skipped")]
        /\ \/ /\ accessToken = NULL
              /\ refreshToken = NULL
              /\ tokenExpiresAt = 0
              /\ baseUrl = IF tried THEN StripTrailingSlash(c.url) ELSE <<>>
              /\ issued = 0
              /\ lastPair = NULL
           \/ /\ accessToken = 1
              /\ refreshToken = 1
              /\ tokenExpiresAt = TOKEN_TTL
              /\ baseUrl = <<"a">>
              /\ issued = 1
              /\ lastPair = 1
  /\ cacheFile = <<>>
  /\ lastRefresh = <<>>
  /\ result = NoResult
  /\ tools = AllTools
  /\ lastCall = <<>>
  /\ invocations = 0
  /\ tornDown = FALSE
  /\ lastSuccessAt = 0

\* The steps of the process while the host calls the login tool only, the
\* server rejects every login, and the user edits the config file.
NextCred ==
  \/ \E p \in Procs, c \in LoginInputs : InvokeLoginLogged(p, c)
  \/ \E c \in ConfigFiles : EditConfig(c)
  \/ \E p \in Procs, s \in Statuses, b \in Bodies : LoginRejected(p, s, b)
  \/ \E p \in Procs : FetchThrows(p)
  \/ Settle

SpecCred == InitCred /\ [][NextCred]_vars

\* A remote that rotates refresh tokens accepts each refresh token once.
\* While nobody logs in, the pairs are issued in a chain, each from the refresh
\* token of the one before, so the token not yet spent is the one of the pair
\* issued last.
RotatingRefreshOk(p) ==
  /\ inv[p].pc = "refresh_wait"
  /\ inv[p].net.arg = issued
  /\ RefreshOk(p)

RotatingRefreshRejected(p, status) ==
  /\ inv[p].pc = "refresh_wait"
  /\ inv[p].net.arg # issued
  /\ RefreshRejected(p, status)

\* The steps of the process against such a remote while the host invokes the
\* tools that send one request.
NextRotating ==
  \/ \E p \in Procs, t \in SimpleTools : InvokeTool(p, t)
  \/ \E p \in Procs : EnsureAuthenticated(p)
  \/ \E p \in Procs : RotatingRefreshOk(p)
  \/ \E p \in Procs, s \in Statuses : RotatingRefreshRejected(p, s)
  \/ \E p \in Procs : FetchThrows(p)
  \/ \E p \in Procs : Continue(p)
  \/ \E p \in Procs, s \in Statuses : SimpleResponse(p, s)
  \/ Tick
  \/ Settle

SpecRotating == InitActive /\ [][NextRotating]_vars

\* The steps of the process while the host invokes check_availability only and
\* every fetch settles before the clock (30 s units) moves on.
NextAvailability ==
  \/ \E p \in Procs : InvokeTool(p, "check_availability")
  \/ \E p \in Procs : EnsureAuthenticated(p)
  \/ \E p \in Procs : Continue(p)
  \/ \E p \in Procs, s \in Statuses, l \in AvailabilityLists :
       AvailabilityResponse(p, s, l)
  \/ \E p \in Procs : FetchThrows(p)
  \/ Settle

SpecAvailability == InitActive /\ [][NextAvailability]_vars

\* The module has been loaded into a process with some environment and some
\* config file; register has not run yet.
InitLoaded ==
  /\ now = 0
  /\ accessToken = NULL
  /\ refreshToken = NULL
  /\ tokenExpiresAt = 0
  /\ baseUrl = <<>>
  /\ cacheFile = <<>>
  /\ lastRefresh = <<>>
  /\ inv = [p \in Slots |-> IF p = Background THEN AutoLogin("unstarted") ELSE Idle]
  /\ result = NoResult
  /\ env \in Environments
  /\ config \in ConfigFiles
  /\ tools = {}
  /\ lastCall = <<>>
  /\ issued = 0
  /\ invocations = 0
  /\ tornDown = FALSE
  /\ lastSuccessAt = 0
  /\ lastPair = NULL

\* register(api): tryAutoLogin() runs up to its await (the fetch of login), or
\* to its end when a credential is missing; then the eight tools are registered
Register ==
  /\ result = NoResult
  /\ inv[Background].pc = "unstarted"
  /\ LET c == [k \in CredentialKeys |-> GetCredential(k)]
     IN IF \A k \in CredentialKeys : c[k] # Absent(k)
          THEN Login(Background, "tryAutoLogin", c.url)
        ELSE /\ inv' = [inv EXCEPT ![Background] = AutoLogin("skipped")]
             /\ UNCHANGED baseUrl
  /\ tools' = AllTools
  /\ UNCHANGED <<env, config, lastCall, now, session, cache, result, issued,
                 invocations, history>>

\* The steps of the process from its registration on while the host calls
\* the login tool only and every fetch settles before the clock (30 s units)
\* moves on.
NextRegister ==
  \/ Register
  \/ \E p \in Procs, c \in LoginInputs : InvokeLogin(p, c)
  \/ \E p \in Slots : LoginOk(p)
  \/ \E p \in Slots, s \in Statuses, b \in Bodies : LoginRejected(p, s, b)
  \/ \E p \in Slots : FetchThrows(p)
  \/ \E p \in Procs : EnsureAuthenticated(p)
  \/ \E p \in Procs : Continue(p)
  \/ \E p \in Procs, s \in Statuses : MeResponse(p, s)
  \/ Settle

SpecRegister == InitLoaded /\ [][NextRegister]_vars

\* ---------------------------------------------------------------------
\* Properties
\* ---------------------------------------------------------------------

\* the step lets the invocation of slot p call fetch
Dispatches(p) == Len(inv'[p].reqs) > Len(inv[p].reqs)

\* the step runs ensureAuthenticated of slot p up to its await or return
Ensures(p) == inv[p].pc = "ensure" /\ inv'[p].pc # "ensure"

RefreshCount(reqs) ==
  Cardinality({i \in 1..Len(reqs) : reqs[i][1] = "POST /auth/refresh"})

NoDuplicates(reqs) == \A i, j \in 1..Len(reqs) : reqs[i] = reqs[j] => i = j

ErrorKinds ==
  {"UrlRequired", "CredentialsRequired", "OrgRequired", "LoginFailed",
   "NotAuthenticated", "SessionExpired", "TimeoutError", "NetworkError",
   "Failed", "BookingFailed"}

\* C1: when an access token is held and now <= tokenExpiresAt - 60 s, a call
\* of ensureAuthenticated sends no request (no POST /auth/refresh), returns
\* normally, and leaves accessToken, refreshToken and tokenExpiresAt as they
\* were.
C1_NoRefreshBeforeMargin ==
  [][\A p \in Procs :
       (Ensures(p) /\ accessToken # NULL /\ now <= tokenExpiresAt - REFRESH_MARGIN)
       => /\ inv'[p].pc = "authed"
          /\ inv'[p].ensured
          /\ inv'[p].reqs = inv[p].reqs
          /\ inv'[p].net = NoReq
          /\ result' = NoResult
          /\ session' = session]_vars

\* a tool has passed ensureAuthenticated without a request exactly at the
\* margin (now = tokenExpiresAt - 60 s)
C1_Witness ==
  \E p \in Procs :
    /\ inv[p].pc = "authed"
    /\ inv[p].tool \in GatedTools
    /\ inv[p].reqs = <<>>
    /\ accessToken # NULL
    /\ now = tokenExpiresAt - REFRESH_MARGIN

\* C2: a refresh answered with a non-2xx status fails the call with the
\* session-expired error and clears both tokens, and from then on, until a
\* login succeeds (tornDown), no token is held, so that every later
\* ensureAuthenticated fails with the not-authenticated error.
C2_RefreshFailureTearsDown ==
  (result.kind = "SessionExpired" \/ tornDown)
    => (accessToken = NULL /\ refreshToken = NULL)

\* C3: for one refresh token at most one POST /auth/refresh is in flight: an
\* invocation that enters ensureAuthenticated while another one's refresh of
\* the same token waits for its response sends no second one.
C3_SingleRefreshInFlight ==
  \A p, q \in Procs :
    (p # q /\ inv[p].pc = "refresh_wait" /\ inv[q].pc = "refresh_wait")
      => inv[p].net.arg # inv[q].net.arg

\* C4: a login that receives a non-2xx response fails with the login error
\* carrying the status and the body, and afterwards neither an access token
\* nor a refresh token is held, whatever was held before.
C4_FailedLoginUnauthenticated ==
  result.kind = "LoginFailed"
    => /\ ~IsOk(result.status)
       /\ result.body \in Bodies
       /\ accessToken = NULL
       /\ refreshToken = NULL

\* C5: every request sent with a bearer token is sent while the token is not
\* expired (now < tokenExpiresAt), the second and later requests of a cache
\* refresh included.
C5_BearerNotExpired ==
  [][\A p \in Procs :
       (Dispatches(p) /\ inv'[p].net.bearer # NULL) => now < tokenExpiresAt]_vars

C7_GatedByEnsure ==
  [][\A p \in Procs :
       /\ (Dispatches(p) /\ inv'[p].tool \in GatedTools
             /\ inv'[p].net.ep \notin AuthEndpoints)
            => inv[p].ensured
       /\ (Ensures(p) /\ inv[p].tool \in GatedTools /\ accessToken = NULL)
            => /\ result'.kind = "NotAuthenticated"
               /\ inv[p].reqs = <<>>
               /\ inv'[p] = Idle
               /\ session' = session
               /\ baseUrl' = baseUrl
               /\ cacheFile' = cacheFile]_vars

\* a tool has just failed with the not-authenticated error
C7_Witness ==
  /\ result.kind = "NotAuthenticated"
  /\ accessToken = NULL
  /\ invocations > 0

\* C8: while tokens are held, tokenExpiresAt is the time the most recent
\* successful login or refresh response was processed plus 14 minutes, and
\* the access token and the refresh token are both the ones of that response.
C8_ExpiryAndTokensOfLastSuccess ==
  /\ (accessToken # NULL) <=> (refreshToken # NULL)
  /\ accessToken # NULL
       => /\ tokenExpiresAt = lastSuccessAt + TOKEN_TTL
          /\ accessToken = lastPair
          /\ refreshToken = lastPair

\* a refresh has just succeeded and replaced the tokens of the login
C8_Witness ==
  \E p \in Procs :
    /\ inv[p].pc = "authed"
    /\ RefreshCount(inv[p].reqs) = 1
    /\ lastSuccessAt = now
    /\ accessToken = lastPair
    /\ lastPair > 1

\* C9: a refresh that ends without an HTTP response (timeout or transport
\* failure) clears both tokens, as a refresh answered with a non-2xx status
\* does: whenever a waiting refresh ends the invocation, no token is held
\* afterwards.
C9_RefreshTimeoutClearsTokens ==
  [][\A p \in Procs :
       (inv[p].pc = "refresh_wait" /\ inv'[p].pc = "idle")
         => (accessToken' = NULL /\ refreshToken' = NULL)]_vars

\* C10: in every snapshot the cache refresh has written, every location of
\* locations has an entry in spaces: the spaces fetched for it, or the empty
\* list when its space fetch was answered with a non-2xx status.
C10_EveryLocationHasSpacesEntry ==
  cacheFile # <<>>
    => \A i \in 1..Len(cacheFile[1].locations) :
         LET l == cacheFile[1].locations[i].id
         IN /\ l \in DOMAIN cacheFile[1].spaces
            /\ cacheFile[1].spaces[l] \in {<<>>, ProjectAll(RemoteSpaces(l))}

\* the ids of the entries of a list
Ids(list) == {list[i].id : i \in 1..Len(list)}

\* C11: however cache refreshes interleave, a step that changes the cache
\* file replaces it by the complete snapshot (updated_at, locations, spaces)
\* of exactly one invocation, the one that takes the step: its timestamp, its
\* locations, the spaces it has collected plus at most those of the location
\* it has just fetched; nothing of the replaced content or of another
\* invocation is kept.
C11_CacheIsOneInvocationsSnapshot ==
  [][cacheFile' # cacheFile =>
       \E p \in Procs :
         /\ inv[p].tool = "refresh_spaces"
         /\ inv[p].pc \in {"req_wait", "space_wait"}
         /\ inv'[p] = Idle
         /\ \A q \in Procs \ {p} : inv'[q] = inv[q]
         /\ Len(cacheFile') = 1
         /\ DOMAIN cacheFile'[1] = {"updated_at", "locations", "spaces"}
         /\ cacheFile'[1].updated_at = now
         /\ cacheFile'[1].locations = ProjectAll(inv[p].locations)
         /\ LET mine == inv[p].spacesByLocation
                got == cacheFile'[1].spaces
                last == IF inv[p].pc = "space_wait"
                          THEN {inv[p].locations[inv[p].idx].id} ELSE {}
            IN /\ DOMAIN mine \subseteq DOMAIN got
               /\ DOMAIN got \subseteq DOMAIN mine \cup last
               /\ \A l \in DOMAIN mine : got[l] = mine[l]
               /\ \A l \in DOMAIN got \ DOMAIN mine :
                    got[l] = ProjectAll(RemoteSpaces(l))]_vars

\* one refresh has written its snapshot while another one, which has fetched
\* a different location list, is still collecting spaces
C11_Witness ==
  /\ cacheFile # <<>>
  /\ \E p \in Procs :
       /\ inv[p].pc = "space_wait"
       /\ ProjectAll(inv[p].locations) # cacheFile[1].locations

\* C12: when a refresh writes the cache after having received the same
\* responses (location list and every space list) as the refresh that wrote
\* the snapshot it replaces, the new snapshot equals the replaced one in
\* everything but updated_at, and the counts it returns are those the earlier
\* refresh returned.
C12_SameResponsesSameSnapshot ==
  [][(/\ result'.kind = "Cache"
      /\ lastRefresh # <<>>
      /\ lastRefresh'[1].resps = lastRefresh[1].resps)
       => /\ [cacheFile'[1] EXCEPT !.updated_at = 0]
               = [cacheFile[1] EXCEPT !.updated_at = 0]
          /\ result'.data = lastRefresh[1].counts]_vars

\* a refresh that found locations and spaces has just replaced, at a later
\* time, the snapshot of a refresh that had received the same responses
C12_Witness ==
  /\ result.kind = "Cache"
  /\ result.data[1] > 0
  /\ result.data[2] > 0
  /\ lastRefresh # <<>>
  /\ lastRefresh[1].repeats # <<>>
  /\ lastRefresh[1].repeats[1] < cacheFile[1].updated_at

\* C13: the step that ends a cache refresh with an error (no session, renewal
\* rejected, error status on GET /location/, fetch failure) leaves the cache
\* file as it was; a step that changes the cache file ends, with a returned
\* result, a cache refresh whose ensureAuthenticated had returned normally
\* and whose GET /location/ had been answered with a 2xx status.
C13_FailedRefreshKeepsCache ==
  [][/\ (\E p \in Procs : /\ inv[p].tool = "refresh_spaces"
                           /\ inv'[p] = Idle
                           /\ result'.kind \in ErrorKinds)
         => cacheFile' = cacheFile
     /\ cacheFile' # cacheFile
         => \E p \in Procs : /\ inv[p].tool = "refresh_spaces"
                             /\ inv[p].ensured
                             /\ inv'[p] = Idle
                             /\ result'.kind = "Cache"
                             /\ lastRefresh'[1].resps[1].ok
                             /\ <<"GET /location/", 0>> \in
                                  {inv[p].reqs[n] : n \in 1..Len(inv[p].reqs)}]_vars

\* a refresh has failed on an error status of GET /location/ while the cache
\* file holds the snapshot of an earlier refresh
C13_Witness ==
  /\ result.kind = "Failed"
  /\ cacheFile # <<>>
  /\ Len(cacheFile[1].locations) > 0

\* C14: in the snapshot the cache file holds, every key of spaces is the id
\* of an entry of locations of that snapshot, whichever of the space fetches
\* succeeded.
C14_SpacesKeysAreLocationIds ==
  cacheFile # <<>>
    => DOMAIN cacheFile[1].spaces \subseteq Ids(cacheFile[1].locations)

\* a snapshot written after the space fetch of one location succeeded and that
\* of another failed
C14_Witness ==
  /\ cacheFile # <<>>
  /\ DOMAIN cacheFile[1].spaces # {}
  /\ DOMAIN cacheFile[1].spaces # Ids(cacheFile[1].locations)

\* C15: for each of the four credential fields the value a login tool call
\* uses is the call argument when that is non-empty, else the environment
\* variable when that is non-empty, else the value the config file holds at
\* the time of the call, else the empty string; the URL the call logs in at
\* is the URL so resolved.
C15_FirstNonEmptySource ==
  [][invocations' # invocations =>
       LET call == lastCall'[1]
       IN /\ \A k \in CredentialKeys :
               call.used[k] =
                 IF call.params[k] # Absent(k) THEN call.params[k]
                 ELSE IF env[k] # Absent(k) THEN env[k]
                 ELSE IF config[k] # Absent(k) THEN config[k]
                 ELSE Absent(k)
          /\ \A p \in Procs :
               Dispatches(p) => baseUrl' = StripTrailingSlash(call.used.url)]_vars

\* a login tool call has taken its URL from the argument although the
\* environment holds one, its email from the environment, and its organisation
\* id from the config file
C15_Witness ==
  /\ lastCall # <<>>
  /\ lastCall[1].params.url # <<>>
  /\ lastCall[1].used.url = lastCall[1].params.url
  /\ env.url # <<>>
  /\ lastCall[1].used.email = env.email
  /\ env.email # ""
  /\ env.orgId = ""
  /\ lastCall[1].used.orgId = config.orgId
  /\ config.orgId # ""
  /\ \E p \in Procs : inv[p].pc = "login_wait"

\* C16: a login tool call whose resolved URL is empty fails with the URL
\* error; else, when the email or the password is empty, with the
\* email-and-password error; else, when the organisation id is empty, with the
\* organisation error.  In each case no request is sent and the tokens, the
\* expiry and the base URL stay as they were.
C16_ValidationBeforeNetwork ==
  [][invocations' # invocations =>
       LET c == lastCall'[1].used
           kind == IF c.url = <<>> THEN "UrlRequired"
                   ELSE IF c.email = "" \/ c.password = ""
                     THEN "CredentialsRequired"
                   ELSE IF c.orgId = "" THEN "OrgRequired"
                   ELSE "none"
       IN /\ result'.kind = kind
          /\ kind # "none" => /\ \A p \in Procs : ~Dispatches(p)
                              /\ \A p \in Procs : ~InFlight(p) => ~InFlight(p)'
                              /\ session' = session
                              /\ baseUrl' = baseUrl]_vars

\* a login tool call without URL and without email has failed with the URL
\* error while a session was held
C16_Witness ==
  /\ result.kind = "UrlRequired"
  /\ lastCall # <<>>
  /\ lastCall[1].used.url = <<>>
  /\ lastCall[1].used.email = ""
  /\ accessToken # NULL
  /\ baseUrl # <<>>

\* C17: a request that is handed to fetch carries a bearer header only if it
\* was issued with authenticated = true and an access token is held at that
\* moment, and then the header is that token; the requests of login and of
\* the token renewal are issued with authenticated = false and carry no
\* header, whether or not a token is held.
C17_BearerOnlyWhenAuthenticated ==
  [][\A p \in Slots :
       Dispatches(p) =>
         LET r == inv'[p].net
         IN /\ r.bearer # NULL
                 => r.authenticated /\ accessToken # NULL /\ r.bearer = accessToken
            /\ r.ep \in AuthEndpoints => ~r.authenticated /\ r.bearer = NULL]_vars

\* a login request is in flight without a header while an access token is held
C17_Witness ==
  \E p \in Procs :
    /\ inv[p].pc = "login_wait"
    /\ inv[p].net.ep = "POST /auth/login"
    /\ inv[p].net.bearer = NULL
    /\ accessToken # NULL

\* C18: create_booking returns its success result only for a response with
\* status 201; for every other status, 200 and 204 included, it fails with the
\* booking error, which carries the status and the body of the response.
C18_BookedOnlyOn201 ==
  /\ result.kind = "Booked" => result.data = <<201>>
  /\ result.kind = "BookingFailed"
       => /\ result.status \in BookingStatuses \ {201}
          /\ result.body \in Bodies

\* create_booking has failed on a response with status 204
C18_Witness ==
  /\ result.kind = "BookingFailed"
  /\ result.status = 204
  /\ result.body = "b2"

\* C19: the login tool, list_locations, list_spaces, check_availability,
\* list_my_bookings and cancel_booking return a result only for a response
\* with a 2xx status to their request (GET /user/me for the login tool); for
\* any other status they fail with an error that carries the status.
C19_NonOkResponseFails ==
  /\ result.kind \in {"Ok", "LoggedIn"} => IsOk(result.data[1])
  /\ result.kind = "Failed" => ~IsOk(result.status)

\* C20: the auto-login of register is best-effort.  The step of register hands
\* no error to the host and registers all tools, and when it skips the login
\* (a credential is missing) no token is held; the step in which the login of
\* tryAutoLogin fails hands no error to the host either and leaves the tools
\* and the session as they were, so that no token is held unless a login tool
\* call has been accepted meanwhile; and after a skipped or failed auto-login
\* the accepted login of a login tool call leaves the session Active (both
\* tokens held, the access token not expired).
C20_AutoLoginBestEffort ==
  [][LET before == inv[Background].pc
         after == inv'[Background].pc
     IN /\ (before = "unstarted" /\ after # "unstarted")
             => /\ result' = NoResult
                /\ tools' = AllTools
                /\ after \in {"skipped", "login_wait"}
                /\ accessToken' = NULL /\ refreshToken' = NULL
        /\ (before # "failed" /\ after = "failed")
             => /\ result' = NoResult
                /\ tools' = AllTools
                /\ session' = session
        /\ (after \in {"skipped", "failed"} /\ issued' = 0)
             => accessToken' = NULL /\ refreshToken' = NULL
        /\ (/\ before \in {"skipped", "failed"}
            /\ \E p \in Procs : /\ inv[p].pc = "login_wait"
                                /\ inv'[p].pc = "ensure")
             => /\ accessToken' # NULL
                /\ refreshToken' # NULL
                /\ now < tokenExpiresAt']_vars

\* the login of tryAutoLogin has failed, and a login tool call has logged in
C20_Witness ==
  /\ inv[Background].pc = "failed"
  /\ tools = AllTools
  /\ result.kind = "LoggedIn"
  /\ accessToken # NULL

\* C21: for every availability response list, check_availability reports as
\* available exactly the entries whose flag is true and as occupied exactly
\* the others, each in response order (entries are numbered by position, and
\* id and name are that number); no entry is in both, every entry is in one,
\* and the two counts are the sizes of the two sets.
C21_AvailabilityPartition ==
  (result.kind = "Ok" /\ Len(result.data) = 3) =>
    LET spaces == result.data[2]
        r == result.data[3]
        A == {i \in 1..Len(spaces) : spaces[i].available}
        O == {i \in 1..Len(spaces) : ~spaces[i].available}
        avail == {r.available[k].id : k \in 1..Len(r.available)}
        occ == {r.occupied[k].name : k \in 1..Len(r.occupied)}
    IN /\ avail = {spaces[i].id : i \in A}
       /\ occ = {spaces[i].name : i \in O}
       /\ \A j, k \in 1..Len(r.available) :
            j < k => r.available[j].id < r.available[k].id
       /\ \A j, k \in 1..Len(r.occupied) :
            j < k => r.occupied[j].name < r.occupied[k].name
       /\ \A k \in 1..Len(r.available) :
            r.available[k].name = spaces[r.available[k].id].name
       /\ avail \cap occ = {}
       /\ avail \cup occ = 1..Len(spaces)
       /\ r.counts = <<Cardinality(A), Cardinality(O)>>

\* the result for a response with the flags T, F, T, T, F
C21_Witness ==
  /\ result.kind = "Ok"
  /\ Len(result.data) = 3
  /\ Len(result.data[2]) = 5
  /\ [i \in 1..5 |-> result.data[2][i].available] = <<TRUE, FALSE, TRUE, TRUE, FALSE>>
  /\ [k \in 1..3 |-> result.data[3].available[k].id] = <<1, 3, 4>>
  /\ [k \in 1..2 |-> result.data[3].occupied[k].name] = <<2, 5>>
  /\ result.data[3].counts = <<3, 2>>

\* C22: against a remote that rotates refresh tokens, the tokens a successful
\* refresh has installed stay held until a refresh issued with them fails: a
\* step that clears the tokens is the rejection of a refresh that was issued
\* with the refresh token held, never that of a refresh issued with an older
\* one.
C22_OldRefreshRejectionKeepsTokens ==
  [][(accessToken # NULL /\ accessToken' = NULL) =>
       \E p \in Procs : /\ inv[p].pc = "refresh_wait"
                         /\ inv'[p] = Idle
                         /\ inv[p].net.arg = refreshToken]_vars

\* C23: whenever tokens are held, baseUrl is the URL of the login that issued
\* them.  The step that stores the tokens of a login response leaves baseUrl
\* at the URL that login was sent to, however logins overlap; and a step that
\* leaves the held tokens as they are (a failed login attempt with another
\* URL among them) leaves baseUrl as it is.
C23_BaseUrlOfIssuingLogin ==
  [][/\ \A p \in Slots :
          (/\ inv[p].pc = "login_wait"
           /\ inv'[p].pc # "login_wait"
           /\ accessToken' # accessToken
           /\ accessToken' # NULL)
            => baseUrl' = inv[p].net.base
     /\ (accessToken # NULL /\ accessToken' = accessToken)
          => baseUrl' = baseUrl]_vars

\* C24: however tool invocations interleave, every request a tool hands to
\* fetch for an endpoint other than login and refresh carries a bearer header,
\* the first request of an invocation and the later ones alike; and the cache
\* file is written on the response to a request that carried one.
C24_ToolRequestsCarryBearer ==
  [][\A p \in Procs :
       /\ (Dispatches(p) /\ inv'[p].net.ep \notin AuthEndpoints)
            => inv'[p].net.bearer # NULL
       /\ (cacheFile' # cacheFile /\ inv'[p] # inv[p])
            => inv[p].net.bearer # NULL]_vars

====
